---- MODULE Spec2Model ----
(***************************************************************************)
(* Token authentication of the tool registry (src/tool_registry/security.py)*)
(*                                                                         *)
(* The module models generate_admin_token, validate_admin_token with its   *)
(* SQLite nonce table, validate_egi_token with fetch_user_info, and the    *)
(* dispatcher validate_token.  Each request is a process that runs         *)
(* validate_token step by step; the steps that touch the nonce table are   *)
(* separate actions so that concurrent requests interleave.                *)
(***************************************************************************)
EXTENDS Integers, Sequences, FiniteSets, TLC

(***************************************************************************)
(* Bounds of the model and constants of the program                        *)
(***************************************************************************)
ALLOWED_SKEW == 60

\* number of request threads that run validate_token concurrently
NumProcs == 2

\* length of the modelled HMAC digest (an abstraction of the 32 bytes)
DigestLen == 2

\* number of distinct nonce values (uuid4().hex) in the model
NumNonces == 2

Procs == 1..NumProcs

(***************************************************************************)
(* Bytes.  A byte string is a sequence of symbols.  A symbol is a record   *)
(* with a kind k, a number n and a nested byte string p, so that all       *)
(* symbols are comparable: Ch(c) is a literal character (or a literal      *)
(* chunk of text without '.'), Num(i) the decimal text of an integer,      *)
(* Hex(i) the text of the i-th uuid4().hex value, and Block(...) a digest  *)
(* byte.  Dot is the separator byte b".".                                  *)
(***************************************************************************)
Ch(c) == [k |-> c, n |-> 0, p |-> <<>>]
Num(i) == [k |-> "int", n |-> i, p |-> <<>>]
Hex(i) == [k |-> "hex", n |-> i, p |-> <<>>]
Dot == Ch(".")

RECURSIVE Weight(_)
Weight(bytes) ==
    IF bytes = <<>> THEN 0
    ELSE 1 + Head(bytes).n + Weight(Head(bytes).p) + Weight(Tail(bytes))

(***************************************************************************)
(* Values of the clock int(time.time()) that the model visits, and the     *)
(* inputs of the model: secrets, user names, nonces.                       *)
(***************************************************************************)
Times == {1, ALLOWED_SKEW + 1, ALLOWED_SKEW + 2}

\* timestamps of the tokens that a client crafts or that an issuer with a
\* skewed clock signs
TS0 == ALLOWED_SKEW + 1
TsValues == Times \cup {0, TS0 + 1}

\* service_config.admin_auth_key, and the secrets a token may be signed with
AdminKey == 1
Secrets == {AdminKey, AdminKey + 1}

Users == { <<Ch("admin")>>, <<Ch("ops"), Dot, Ch("x")>> }
Nonces == 1..NumNonces

(***************************************************************************)
(* hmac.new(secret.encode(), msg, hashlib.sha256).digest()                 *)
(* An ideal MAC: the digest is DigestLen bytes that determine (secret, msg)*)
(* and, as for a real digest, some of them may be the byte '.': DotPos is  *)
(* the position of that byte, 0 when the digest has none.                  *)
(***************************************************************************)
DotPos(secret, msg) ==
    LET h == secret + Weight(msg) IN
    IF h % 7 = 0 THEN 1 + ((h \div 7) % DigestLen) ELSE 0

hmac_digest(secret, msg) ==
    [i \in 1..DigestLen |->
        IF i = DotPos(secret, msg) THEN Dot
        ELSE [k |-> "mac", n |-> secret * (DigestLen + 1) + i, p |-> msg]]

\* a comparison that accepts a partial match (first byte only)
compare_digest_prefix(a, b) == Len(b) >= 1 /\ a[1] = b[1]

\* hmac.compare_digest(a, b): equality of the two byte strings
compare_digest(a, b) == a = b

(***************************************************************************)
(* json.dumps(payload, separators=(",", ":")).encode() and json.loads      *)
(* A payload object has the keys in .keys; the value of a key that is not  *)
(* present is the default below.  The value of "ts" is a symbol: Num(t)    *)
(* for an integer, Ch("str") for a JSON string.                            *)
(***************************************************************************)
NoUser == <<>>
NoVal == Ch("null")

Payload(user, ts, nonce) ==
    [keys |-> {"user", "ts", "nonce"}, user |-> user, ts |-> Num(ts), nonce |-> Hex(nonce)]

JsonObjects ==
    { [keys |-> ks,
       user |-> IF "user" \in ks THEN u ELSE NoUser,
       ts |-> IF "ts" \in ks THEN t ELSE NoVal,
       nonce |-> IF "nonce" \in ks THEN Hex(n) ELSE NoVal] :
         ks \in SUBSET {"user", "ts", "nonce"},
         u \in Users,
         t \in {Num(x) : x \in TsValues} \cup {Ch("str")},
         n \in Nonces }

json_dumps(obj) ==
    <<Ch("{")>>
    \o (IF "user" \in obj.keys THEN <<Ch("user:")>> \o obj.user ELSE <<>>)
    \o (IF "ts" \in obj.keys THEN <<Ch("ts:"), obj.ts>> ELSE <<>>)
    \o (IF "nonce" \in obj.keys THEN <<Ch("nonce:"), obj.nonce>> ELSE <<>>)
    \o <<Ch("}")>>

\* json.loads: the object whose text is the input, or JSONDecodeError
JsonValid(bytes) == \E o \in JsonObjects : json_dumps(o) = bytes
json_loads(bytes) == CHOOSE o \in JsonObjects : json_dumps(o) = bytes

(***************************************************************************)
(* base64.urlsafe_b64encode / urlsafe_b64decode.  A credential string is   *)
(* a record: the base64 text of a byte string, a text that is not base64,  *)
(* a JWT with the facts the federated validator depends on, or None.       *)
(***************************************************************************)
urlsafe_b64encode(bytes) == [enc |-> "b64", data |-> bytes]
B64Valid(token) == token.enc = "b64"
urlsafe_b64decode(token) == token.data

NoCredential == [enc |-> "none"]
NotBase64 == [enc |-> "text"]
Jwt(kidKnown, sigValid, issMatches, unexpired) ==
    [enc |-> "jwt", kidKnown |-> kidKnown, sigValid |-> sigValid,
     issMatches |-> issMatches, unexpired |-> unexpired]

(***************************************************************************)
(* decoded.rsplit(b".", 1): split at the last '.'                          *)
(***************************************************************************)
HasDot(bytes) == \E i \in 1..Len(bytes) : bytes[i] = Dot
LastDot(bytes) == CHOOSE i \in 1..Len(bytes) :
                    /\ bytes[i] = Dot
                    /\ \A j \in (i + 1)..Len(bytes) : bytes[j] # Dot
rsplit(bytes) ==
    [payload_bytes |-> SubSeq(bytes, 1, LastDot(bytes) - 1),
     signature |-> SubSeq(bytes, LastDot(bytes) + 1, Len(bytes))]

(***************************************************************************)
(* generate_admin_token(secret, user), with the values read from           *)
(* time.time() and uuid.uuid4() as parameters                              *)
(***************************************************************************)
SignedToken(secret, payload_bytes) ==
    urlsafe_b64encode(payload_bytes \o <<Dot>> \o hmac_digest(secret, payload_bytes))

generate_admin_token(secret, user, timestamp, nonce) ==
    SignedToken(secret, json_dumps(Payload(user, timestamp, nonce)))

Abs(x) == IF x < 0 THEN -x ELSE x

(***************************************************************************)
(* validate_admin_token, lines 70-95: the part before the nonce table.     *)
(* The outcome is the branch taken: "Malformed" (decoding error),          *)
(* "InvalidSignature", "Expired" (all three return False), an exception    *)
(* that the function does not catch, or "fresh" with the payload.          *)
(***************************************************************************)
AdminDecode(token) ==
    IF ~B64Valid(token) THEN [out |-> "Malformed"]
    ELSE IF ~HasDot(urlsafe_b64decode(token)) THEN [out |-> "Malformed"]
    ELSE [out |-> "decoded",
          payload_bytes |-> rsplit(urlsafe_b64decode(token)).payload_bytes,
          signature |-> rsplit(urlsafe_b64decode(token)).signature]

SignatureOk(secret, payload_bytes, signature) ==
    compare_digest(hmac_digest(secret, payload_bytes), signature)

\* a freshness check that forgets abs(): tokens from the future pass
Fresh_no_abs(nowv, ts) == ~(nowv - ts > ALLOWED_SKEW)

\* line 91: abs(now - payload["ts"]) > ALLOWED_SKEW means expired
Fresh(nowv, ts) == ~(Abs(nowv - ts) > ALLOWED_SKEW)

AdminCheck(token, secret, nowv) ==
    LET d == AdminDecode(token) IN
    IF d.out # "decoded" THEN [out |-> d.out]
    ELSE IF ~SignatureOk(secret, d.payload_bytes, d.signature)
         THEN [out |-> "InvalidSignature"]
    ELSE IF ~JsonValid(d.payload_bytes) THEN [out |-> "JSONDecodeError"]
    ELSE LET payload == json_loads(d.payload_bytes) IN
         IF "ts" \notin payload.keys THEN [out |-> "KeyError"]
         ELSE IF payload.ts.k # "int" THEN [out |-> "TypeError"]
         ELSE IF ~Fresh(nowv, payload.ts.n) THEN [out |-> "Expired"]
         ELSE IF "nonce" \notin payload.keys THEN [out |-> "KeyError"]
         ELSE [out |-> "fresh", payload |-> payload]


(***************************************************************************)
(* Credentials that clients present                                        *)
(***************************************************************************)
\* a token of the admin key for (user, TS0, nonce), e.g. from an issuer whose
\* clock is ahead
GoodToken(user, nonce) == generate_admin_token(AdminKey, user, TS0, nonce)

User0 == <<Ch("admin")>>
User1 == <<Ch("ops"), Dot, Ch("x")>>

\* the signature segment with byte i replaced by b
FlipByte(token, i, b) ==
    LET d == rsplit(urlsafe_b64decode(token)) IN
    urlsafe_b64encode(d.payload_bytes \o <<Dot>> \o [d.signature EXCEPT ![i] = b])

\* the payload replaced, the signature kept
Tamper(token, payload_bytes) ==
    urlsafe_b64encode(payload_bytes \o <<Dot>> \o rsplit(urlsafe_b64decode(token)).signature)

ForgedCreds ==
    { generate_admin_token(AdminKey + 1, User0, TS0, 1),
      Tamper(GoodToken(User0, 1), json_dumps(Payload(User1, TS0, 1))),
      urlsafe_b64encode(json_dumps(Payload(User0, TS0, 1))),
      NotBase64 }
    \cup { FlipByte(GoodToken(User0, 1), i, b) :
             i \in 1..DigestLen, b \in {Dot, Ch("x")} }

\* correctly signed tokens whose payload is not the one generate_admin_token writes
OddCreds ==
    { SignedToken(AdminKey, <<Ch("not json")>>),
      SignedToken(AdminKey, json_dumps([Payload(User0, TS0, 1) EXCEPT
                                          !.keys = {"ts", "nonce"}, !.user = NoUser])),
      SignedToken(AdminKey, json_dumps([Payload(User0, TS0, 1) EXCEPT
                                          !.keys = {"user", "nonce"}, !.ts = NoVal])),
      SignedToken(AdminKey, json_dumps([Payload(User0, TS0, 1) EXCEPT
                                          !.keys = {"user", "ts"}, !.nonce = NoVal])),
      SignedToken(AdminKey, json_dumps([Payload(User0, TS0, 1) EXCEPT
                                          !.ts = Ch("str")])) }

AdminCreds ==
    { GoodToken(u, n) : u \in Users, n \in Nonces }
    \cup { generate_admin_token(AdminKey, User0, t, 1) : t \in {0, TS0 + 1} }

JwtCreds ==
    { Jwt(TRUE, TRUE, TRUE, TRUE), Jwt(FALSE, TRUE, TRUE, TRUE),
      Jwt(TRUE, FALSE, TRUE, TRUE), Jwt(TRUE, TRUE, FALSE, TRUE),
      Jwt(TRUE, TRUE, TRUE, FALSE) }

Credentials == {NoCredential} \cup AdminCreds \cup ForgedCreds \cup OddCreds \cup JwtCreds

\* the tokens that concurrent requests present
SharedCreds == { GoodToken(User0, 1), GoodToken(User0, NumNonces) }

\* every credential of the model, and the outcome of lines 70-95 for each of
\* them at each time (evaluated once)
IssuedTokens == { generate_admin_token(AdminKey, u, t, n) :
                    u \in Users, t \in Times, n \in Nonces }
TokenUniverse == Credentials \cup IssuedTokens
CheckTable == [c \in TokenUniverse, t \in Times |-> AdminCheck(c, AdminKey, t)]

\* the payload that json.loads returns at line 88, for the credentials that
\* reach that line
SignedJson(c) ==
    /\ AdminDecode(c).out = "decoded"
    /\ SignatureOk(AdminKey, AdminDecode(c).payload_bytes, AdminDecode(c).signature)
    /\ JsonValid(AdminDecode(c).payload_bytes)
PayloadTable == [c \in {x \in TokenUniverse : SignedJson(x)} |->
                    json_loads(AdminDecode(c).payload_bytes)]

(***************************************************************************)
(* Results of validate_token                                               *)
(***************************************************************************)
NoResult == [kind |-> "none"]
AdminPrincipal(user) == [kind |-> "Admin", auth |-> user]
FederatedPrincipal == [kind |-> "Federated"]
\* raise HTTPException(status_code=HTTP_401_UNAUTHORIZED, detail=...)
Unauthorized(detail) == [kind |-> "Rejected", status |-> 401, detail |-> detail]
\* an exception that nothing catches: the request fails with a server error
Uncaught(exc) == [kind |-> "Error", exc |-> exc]

\* the except clauses of validate_egi_token, lines 153-167
egi_except(exc) ==
    IF exc = "ExpiredSignatureError" THEN Unauthorized("Token expired")
    ELSE IF exc = "InvalidTokenError" THEN Unauthorized("Invalid token")
    ELSE Unauthorized("Invalid token")

\* sqlite3.connect(db_path): the default timeout of a connection, in seconds
SQLITE_TIMEOUT == 5

\* a row of the table nonces
Row(nonce, expires_at) == [nonce |-> nonce, expires_at |-> expires_at]

(***************************************************************************)
(* State                                                                   *)
(***************************************************************************)
VARIABLES
    now,          \* int(time.time())
    tableExists,  \* the table nonces exists in cache/nonces.db
    nonces,       \* the committed rows of the table nonces
    writer,       \* the connection that holds the write lock of the file, or 0
    lastToken,    \* the token printed by the last generate_admin_token
    pc,           \* position of each request in validate_token
    cred,         \* credentials.credentials of the request
    nowL,         \* the local variable now of validate_admin_token
    waitFrom,     \* the time since which the connection waits for the write lock, or 0
    view,         \* the table as seen by the open transaction of the request
    adminRes,     \* branch on which validate_admin_token returned
    result,       \* outcome of validate_token
    contended,    \* a request with the same credential was in flight during this one
    unconsumed,   \* the request started when its token had not yet been consumed
    accepts,      \* number of successful validations, per nonce
    fedRuns,      \* runs of validate_egi_token in this request
    fedLog        \* what happened in validate_egi_token: network calls and checks

vars == <<now, tableExists, nonces, writer, lastToken, pc, cred, nowL, waitFrom, view,
          adminRes, result, contended, waitFrom, unconsumed, accepts, fedRuns, fedLog>>

InFlight(p) == pc[p] \notin {"idle", "done"}

\* the payload of a request that passed the checks before the nonce table
PayloadOf(p) == PayloadTable[cred[p]]
NonceOf(p) == PayloadOf(p).nonce.n

Init ==
    /\ now = 1
    /\ tableExists = FALSE
    /\ nonces = {}
    /\ writer = 0
    /\ lastToken = NoCredential
    /\ pc = [p \in Procs |-> "idle"]
    /\ cred = [p \in Procs |-> NoCredential]
    /\ nowL = [p \in Procs |-> 0]
    /\ view = [p \in Procs |-> {}]
    /\ adminRes = [p \in Procs |-> "none"]
    /\ result = [p \in Procs |-> NoResult]
    /\ contended = [p \in Procs |-> FALSE]
    /\ waitFrom = [p \in Procs |-> 0]
    /\ unconsumed = [p \in Procs |-> FALSE]
    /\ accepts = [n \in Nonces |-> 0]
    /\ fedRuns = [p \in Procs |-> 0]
    /\ fedLog = [p \in Procs |-> {}]

(***************************************************************************)
(* Helpers of the history variables: the payload that a credential         *)
(* carries when it is a correctly signed token with integer ts and a nonce *)
(***************************************************************************)
WellSigned(c) == \E t \in Times : CheckTable[c, t].out = "fresh"
TokenPayload(c) == json_loads(AdminDecode(c).payload_bytes)
WellSignedTable == [c \in TokenUniverse |-> WellSigned(c)]
TokenNonce == [c \in {x \in TokenUniverse : WellSigned(x)} |-> TokenPayload(c).nonce.n]

(***************************************************************************)
(* Environment: the clock, the creation of the table, the issuer           *)
(***************************************************************************)
\* time passes
Tick ==
    /\ \E t \in Times : t > now /\ now' = t
    /\ UNCHANGED <<tableExists, nonces, writer, lastToken, pc, cred, nowL, view,
                   adminRes, result, contended, waitFrom, unconsumed, accepts, fedRuns, fedLog>>

\* init_nonce_db: CREATE TABLE IF NOT EXISTS nonces, commit, close
init_nonce_db ==
    /\ writer = 0
    /\ ~tableExists
    /\ tableExists' = TRUE
    /\ UNCHANGED <<now, nonces, writer, lastToken, pc, cred, nowL, view,
                   adminRes, result, contended, waitFrom, unconsumed, accepts, fedRuns, fedLog>>

\* get_admin_token.py: generate_admin_token(service_config.admin_auth_key, user)
\* uuid4 yields a nonce that no earlier token carried
Issue(user, nonce) ==
    /\ accepts[nonce] = 0
    /\ \A p \in Procs : InFlight(p) /\ WellSignedTable[cred[p]] => TokenNonce[cred[p]] # nonce
    /\ lastToken' = generate_admin_token(AdminKey, user, now, nonce)
    /\ lastToken' # lastToken
    /\ UNCHANGED <<now, tableExists, nonces, writer, pc, cred, nowL, view,
                   adminRes, result, contended, waitFrom, unconsumed, accepts, fedRuns, fedLog>>

(***************************************************************************)
(* validate_token, one request per process                                 *)
(***************************************************************************)
\* the request ends; the local now of validate_admin_token is gone
Finish(p, res) ==
    /\ pc' = [pc EXCEPT ![p] = "done"]
    /\ result' = [result EXCEPT ![p] = res]
    /\ nowL' = [nowL EXCEPT ![p] = 0]

\* validate_token is entered with the credential (lines 131-132);
\* credentials is None when the request has no Authorization header
StartCall(p, c) ==
    /\ pc[p] \in {"idle", "done"}
    /\ cred' = [cred EXCEPT ![p] = c]
    /\ view' = [view EXCEPT ![p] = {}]
    /\ adminRes' = [adminRes EXCEPT ![p] = "none"]
    /\ fedRuns' = [fedRuns EXCEPT ![p] = 0]
    /\ fedLog' = [fedLog EXCEPT ![p] = {}]
    /\ unconsumed' = [unconsumed EXCEPT ![p] =
                        WellSignedTable[c] /\ accepts[TokenNonce[c]] = 0]
    /\ IF c = NoCredential
       THEN /\ Finish(p, Uncaught("AttributeError"))
            /\ contended' = [contended EXCEPT ![p] = FALSE]
       ELSE /\ pc' = [pc EXCEPT ![p] = "admin"]
            /\ result' = [result EXCEPT ![p] = NoResult]
            /\ UNCHANGED nowL
            /\ contended' = [q \in Procs |->
                               IF q = p THEN \E r \in Procs \ {p} : InFlight(r) /\ cred[r] = c
                               ELSE IF InFlight(q) /\ cred[q] = c THEN TRUE
                               ELSE contended[q]]
    /\ UNCHANGED <<now, tableExists, nonces, writer, lastToken, waitFrom, accepts>>

\* validate_admin_token lines 70-96: decode, signature, json.loads, clock,
\* freshness, nonce, sqlite3.connect
AdminStep(p) ==
    /\ pc[p] = "admin"
    /\ LET r == CheckTable[cred[p], now] IN
       IF r.out = "fresh"
          THEN /\ pc' = [pc EXCEPT ![p] = "delete"]
               /\ nowL' = [nowL EXCEPT ![p] = now]
               /\ UNCHANGED <<adminRes, result>>
          ELSE IF r.out \in {"Malformed", "InvalidSignature", "Expired"}
          THEN /\ adminRes' = [adminRes EXCEPT ![p] = r.out]
               /\ pc' = [pc EXCEPT ![p] = "fed_key"]
               /\ nowL' = [nowL EXCEPT ![p] = IF r.out = "Expired" THEN now ELSE @]
               /\ UNCHANGED result
          ELSE /\ Finish(p, Uncaught(r.out))
               /\ adminRes' = [adminRes EXCEPT ![p] = "raised"]
    /\ UNCHANGED <<now, tableExists, nonces, writer, lastToken, cred, view,
                   contended, waitFrom, unconsumed, accepts, fedRuns, fedLog>>

\* line 98: DELETE FROM nonces WHERE expires_at < now.  The statement opens
\* the transaction of the connection and takes the write lock of the file.
DbDelete(p) ==
    /\ pc[p] = "delete"
    /\ IF ~tableExists
       THEN /\ Finish(p, Uncaught("OperationalError: no such table"))
            /\ adminRes' = [adminRes EXCEPT ![p] = "raised"]
            /\ UNCHANGED <<writer, view>>
       ELSE /\ writer = 0
            /\ writer' = p
            /\ view' = [view EXCEPT ![p] = {r \in nonces : ~(r.expires_at < nowL[p])}]
            /\ pc' = [pc EXCEPT ![p] = "select"]
            /\ UNCHANGED <<adminRes, result, nowL>>
    /\ waitFrom' = [waitFrom EXCEPT ![p] = 0]
    /\ UNCHANGED <<now, tableExists, nonces, lastToken, cred,
                   contended, unconsumed, accepts, fedRuns, fedLog>>

\* line 98 while another connection holds the write lock: the statement
\* waits in the busy handler of SQLite, up to the timeout of sqlite3.connect
DbBusy(p) ==
    /\ pc[p] = "delete"
    /\ tableExists
    /\ writer # 0
    /\ waitFrom[p] = 0
    /\ waitFrom' = [waitFrom EXCEPT ![p] = now]
    /\ UNCHANGED <<now, tableExists, nonces, writer, lastToken, pc, cred, nowL, view,
                   adminRes, result, contended, unconsumed, accepts, fedRuns, fedLog>>

\* line 98 when the wait has lasted the timeout and the lock is still held:
\* OperationalError, database is locked
DbLocked(p) ==
    /\ pc[p] = "delete"
    /\ waitFrom[p] # 0
    /\ writer # 0
    /\ now - waitFrom[p] >= SQLITE_TIMEOUT
    /\ Finish(p, Uncaught("OperationalError: database is locked"))
    /\ adminRes' = [adminRes EXCEPT ![p] = "raised"]
    /\ waitFrom' = [waitFrom EXCEPT ![p] = 0]
    /\ UNCHANGED <<now, tableExists, nonces, writer, lastToken, cred, view,
                   contended, unconsumed, accepts, fedRuns, fedLog>>

\* lines 99-103: SELECT 1 FROM nonces WHERE nonce = ?; on a hit the
\* connection is closed without commit, which rolls the transaction back
\* a replay branch that commits before it closes the connection
DbSelect_commit_on_replay(p) ==
    /\ pc[p] = "select"
    /\ IF \E r \in view[p] : r.nonce = NonceOf(p)
       THEN /\ nonces' = view[p]
            /\ writer' = 0
            /\ view' = [view EXCEPT ![p] = {}]
            /\ adminRes' = [adminRes EXCEPT ![p] = "Replayed"]
            /\ pc' = [pc EXCEPT ![p] = "fed_key"]
       ELSE /\ pc' = [pc EXCEPT ![p] = "insert"]
            /\ UNCHANGED <<nonces, writer, view, adminRes>>
    /\ UNCHANGED <<now, tableExists, lastToken, cred, nowL, result,
                   contended, waitFrom, unconsumed, accepts, fedRuns, fedLog>>

DbSelect(p) ==
    /\ pc[p] = "select"
    /\ IF \E r \in view[p] : r.nonce = NonceOf(p)
       THEN /\ writer' = 0
            /\ view' = [view EXCEPT ![p] = {}]
            /\ adminRes' = [adminRes EXCEPT ![p] = "Replayed"]
            /\ pc' = [pc EXCEPT ![p] = "fed_key"]
       ELSE /\ pc' = [pc EXCEPT ![p] = "insert"]
            /\ UNCHANGED <<writer, view, adminRes>>
    /\ UNCHANGED <<now, tableExists, nonces, lastToken, cred, nowL, result,
                   contended, waitFrom, unconsumed, accepts, fedRuns, fedLog>>

\* lines 105-108: INSERT INTO nonces VALUES (nonce, now + ALLOWED_SKEW)
DbInsert(p) ==
    /\ pc[p] = "insert"
    /\ view' = [view EXCEPT ![p] = @ \cup {Row(NonceOf(p), nowL[p] + ALLOWED_SKEW)}]
    /\ pc' = [pc EXCEPT ![p] = "commit"]
    /\ UNCHANGED <<now, tableExists, nonces, writer, lastToken, cred, nowL,
                   adminRes, result, contended, waitFrom, unconsumed, accepts, fedRuns, fedLog>>

\* lines 110-112 and 133-135: commit, close, return payload; validate_token
\* returns {"auth": admin_user['user'], ...}
DbCommit(p) ==
    /\ pc[p] = "commit"
    /\ nonces' = view[p]
    /\ writer' = 0
    /\ view' = [view EXCEPT ![p] = {}]
    /\ adminRes' = [adminRes EXCEPT ![p] = "ok"]
    /\ accepts' = [accepts EXCEPT ![NonceOf(p)] = @ + 1]
    /\ IF "user" \in PayloadOf(p).keys
       THEN Finish(p, AdminPrincipal(PayloadOf(p).user))
       ELSE Finish(p, Uncaught("KeyError"))
    /\ UNCHANGED <<now, tableExists, lastToken, cred,
                   contended, waitFrom, unconsumed, fedRuns, fedLog>>

(***************************************************************************)
(* validate_egi_token, lines 139-167                                       *)
(***************************************************************************)
EgiReject(p, exc) == Finish(p, egi_except(exc))

\* line 145: jwk_client.get_signing_key_from_jwt(token).key
\* a credential that is not a JWT fails to decode; otherwise the key set
\* is fetched from JWKS_URL, and the fetch or the lookup of kid may fail
FedKey(p) ==
    /\ pc[p] = "fed_key"
    /\ fedRuns' = [fedRuns EXCEPT ![p] = @ + 1]
    /\ IF cred[p].enc # "jwt"
       THEN /\ EgiReject(p, "InvalidTokenError")
            /\ fedLog' = [fedLog EXCEPT ![p] = @ \cup {"not_a_jwt"}]
       ELSE \E fetched \in BOOLEAN :
              /\ fedLog' = [fedLog EXCEPT ![p] = @ \cup
                     {IF ~fetched THEN "jwks_fetch_failed"
                      ELSE IF cred[p].kidKnown THEN "jwks_key" ELSE "jwks_no_key"}]
              /\ IF fetched /\ cred[p].kidKnown
                 THEN /\ pc' = [pc EXCEPT ![p] = "fed_decode"]
                      /\ UNCHANGED <<result, nowL>>
                 ELSE EgiReject(p, "PyJWKClientError")
    /\ UNCHANGED <<now, tableExists, nonces, writer, lastToken, cred, view,
                   adminRes, contended, waitFrom, unconsumed, accepts>>

\* line 148: jwt.decode(token, signing_key, algorithms=["RS256"], issuer=ISSUER)
FedDecode(p) ==
    /\ pc[p] = "fed_decode"
    /\ IF ~cred[p].sigValid THEN EgiReject(p, "InvalidTokenError")
       ELSE IF ~cred[p].unexpired THEN EgiReject(p, "ExpiredSignatureError")
       ELSE IF ~cred[p].issMatches THEN EgiReject(p, "InvalidTokenError")
       ELSE /\ pc' = [pc EXCEPT ![p] = "fed_userinfo"]
            /\ UNCHANGED <<result, nowL>>
    /\ fedLog' = [fedLog EXCEPT ![p] = @ \cup
           {IF cred[p].sigValid /\ cred[p].unexpired /\ cred[p].issMatches
            THEN "jwt_verified" ELSE "jwt_rejected"}]
    /\ UNCHANGED <<now, tableExists, nonces, writer, lastToken, cred, view,
                   adminRes, contended, waitFrom, unconsumed, accepts, fedRuns>>

\* fetch_user_info, lines 117-128: a RequestException becomes
\* HTTPException(401, "Failed to fetch user info"), raised inside the try
\* of validate_egi_token
\* a fetch_user_info that swallows the failure and returns a value
fetch_user_info_swallow(ok) == "user_info"

fetch_user_info(ok) == IF ok THEN "user_info" ELSE "HTTPException"

\* lines 149-151: user_info = fetch_user_info(token); return payload
FedUserInfo(p) ==
    /\ pc[p] = "fed_userinfo"
    /\ \E ok \in BOOLEAN :
         /\ fedLog' = [fedLog EXCEPT ![p] = @ \cup
                {IF ok THEN "userinfo_ok" ELSE "userinfo_failed"}]
         /\ IF fetch_user_info(ok) = "user_info"
            THEN Finish(p, FederatedPrincipal)
            ELSE EgiReject(p, fetch_user_info(ok))
    /\ UNCHANGED <<now, tableExists, nonces, writer, lastToken, cred, view,
                   adminRes, contended, waitFrom, unconsumed, accepts, fedRuns>>

(***************************************************************************)
(* Specifications                                                          *)
(***************************************************************************)
\* concurrent requests on the shared nonce table, one request per process
Next ==
    \/ Tick
    \/ init_nonce_db
    \/ \E p \in Procs, c \in SharedCreds : pc[p] = "idle" /\ StartCall(p, c)
    \/ \E p \in Procs : AdminStep(p)
    \/ \E p \in Procs : DbDelete(p)
    \/ \E p \in Procs : DbBusy(p)
    \/ \E p \in Procs : DbLocked(p)
    \/ \E p \in Procs : DbSelect(p)
    \/ \E p \in Procs : DbInsert(p)
    \/ \E p \in Procs : DbCommit(p)
    \/ \E p \in Procs : FedKey(p)

Spec == Init /\ [][Next]_vars

\* one request at a time, any credential, with the issuer
SeqNext ==
    \/ Tick
    \/ init_nonce_db
    \/ \E u \in Users, n \in Nonces : Issue(u, n)
    \/ \E c \in Credentials \cup {lastToken} : StartCall(1, c)
    \/ AdminStep(1)
    \/ DbDelete(1)
    \/ DbSelect(1)
    \/ DbInsert(1)
    \/ DbCommit(1)
    \/ FedKey(1)
    \/ FedDecode(1)
    \/ FedUserInfo(1)

SeqSpec == Init /\ [][SeqNext]_vars

\* the steps of a request that the server itself carries out: once the
\* request is at such a step, the step is taken.  The key lookup of line 145
\* is counted among them.  FedUserInfo is not: requests.get at lines 119-121
\* is called without a timeout, so it returns only when the provider sends a
\* response or the connection fails, and neither has to happen.
ServerFairness ==
    /\ WF_vars(AdminStep(1))
    /\ WF_vars(DbDelete(1))
    /\ WF_vars(DbSelect(1))
    /\ WF_vars(DbInsert(1))
    /\ WF_vars(DbCommit(1))
    /\ WF_vars(FedKey(1))
    /\ WF_vars(FedDecode(1))

\* one request at a time on a server that keeps running
LiveSpec == Init /\ [][SeqNext]_vars /\ ServerFairness

(***************************************************************************)
(* Properties                                                              *)
(***************************************************************************)
Done(p) == pc[p] = "done"
Finishes(p) == pc[p] # "done" /\ pc'[p] = "done"

\* C1: over any sequence of validate_admin_token calls and clock advances,
\* at most one call that carries a given nonce value ever succeeds.
C1_NonceAcceptedAtMostOnce == \A n \in Nonces : accepts[n] <= 1

\* C2: when several validate_admin_token calls present the same valid, fresh,
\* not yet consumed token concurrently (the table exists), exactly one of
\* them returns the payload and each other one is rejected as Replayed: no
\* two of them succeed and none ends in any other outcome.
NoSuchTable(p) == result[p] = Uncaught("OperationalError: no such table")
RacedCall(p) ==
    /\ Done(p)
    /\ contended[p]
    /\ unconsumed[p]
    /\ adminRes[p] # "Expired"
    /\ ~NoSuchTable(p)
C2_ExactlyOneOfConcurrentCalls ==
    /\ \A p \in Procs : RacedCall(p) =>
          /\ adminRes[p] \in {"ok", "Replayed"}
          /\ accepts[TokenNonce[cred[p]]] = 1
    /\ \A p, q \in Procs :
          (p # q /\ RacedCall(p) /\ RacedCall(q) /\ cred[p] = cred[q])
             => ~(adminRes[p] = "ok" /\ adminRes[q] = "ok")

\* C3: a token that generate_admin_token has just produced validates
\* immediately afterwards, on a table without its nonce, with a payload
\* whose user is the issued user, and a second call with the identical
\* token is rejected as Replayed.
IsIssued(token) == token \in IssuedTokens
IssuedFields(token) ==
    CHOOSE f \in Users \X Times \X Nonces :
        generate_admin_token(AdminKey, f[1], f[2], f[3]) = token
PresentsIssued(p) ==
    /\ IsIssued(lastToken)
    /\ cred[p] = lastToken
    /\ now = IssuedFields(lastToken)[2]
    /\ tableExists
C3_IssueThenValidateOnce ==
    [][\A p \in Procs : (Finishes(p) /\ PresentsIssued(p)) =>
          IF accepts[IssuedFields(lastToken)[3]] = 0
          THEN result'[p] = AdminPrincipal(IssuedFields(lastToken)[1])
          ELSE adminRes'[p] = "Replayed"]_vars

\* C4: a token whose signature segment differs from the HMAC-SHA256 of its
\* payload bytes under the validator's secret is never accepted and is
\* rejected on the InvalidSignature branch (wrong secret, altered payload,
\* one changed signature byte).
SigMismatch(c) ==
    /\ c.enc = "b64"
    /\ HasDot(c.data)
    /\ rsplit(c.data).signature # hmac_digest(AdminKey, rsplit(c.data).payload_bytes)
MismatchTable == [c \in TokenUniverse |-> SigMismatch(c)]
Checked(p) == pc[p] \notin {"idle", "admin"}
C4_BadSignatureRejected ==
    \A p \in Procs : (Checked(p) /\ MismatchTable[cred[p]]) =>
        /\ adminRes[p] = "InvalidSignature"
        /\ result[p].kind # "Admin"
C4_Witness ==
    \E p \in Procs :
        /\ Done(p)
        /\ cred[p] = FlipByte(GoodToken(User0, 1), DigestLen, Dot)
        /\ adminRes[p] = "InvalidSignature"

\* C5: a correctly signed token is accepted only if |now - ts| <= ALLOWED_SKEW
\* at validation time: at a distance of exactly ALLOWED_SKEW it passes the
\* freshness check, beyond it (in the past or in the future) the result is
\* Expired, and an Expired call does not change the nonce table.
SignedTs(c) ==
    IF /\ c.enc = "b64"
       /\ HasDot(c.data)
       /\ ~SigMismatch(c)
       /\ JsonValid(rsplit(c.data).payload_bytes)
       /\ "ts" \in json_loads(rsplit(c.data).payload_bytes).keys
       /\ json_loads(rsplit(c.data).payload_bytes).ts.k = "int"
    THEN json_loads(rsplit(c.data).payload_bytes).ts.n
    ELSE -1
SignedTsTable == [c \in TokenUniverse |-> SignedTs(c)]
Distance(p) == Abs(nowL[p] - SignedTsTable[cred[p]])
PastFreshness(p) == InFlight(p) /\ pc[p] # "admin" /\ SignedTsTable[cred[p]] >= 0
C5_FreshnessWindow ==
    /\ [](\A p \in Procs : PastFreshness(p) =>
             ((adminRes[p] = "Expired") <=> (Distance(p) > ALLOWED_SKEW)))
    /\ [][\A p \in Procs :
             /\ (adminRes[p] # "ok" /\ adminRes'[p] = "ok") =>
                    (PastFreshness(p) /\ Distance(p) <= ALLOWED_SKEW)
             /\ adminRes'[p] = "Expired" =>
                    (nonces' = nonces /\ accepts' = accepts)]_vars
C5_Witness ==
    \E p \in Procs :
        /\ pc[p] = "commit"
        /\ SignedTsTable[cred[p]] >= 0
        /\ Distance(p) = ALLOWED_SKEW

\* C6: a request without credential ends at once in Rejected(Missing), an
\* unauthorized response, and neither validator runs.
C6_MissingCredentialRejected ==
    \A p \in Procs : (Done(p) /\ cred[p] = NoCredential) =>
        /\ result[p].kind = "Rejected"
        /\ adminRes[p] = "none"
        /\ fedRuns[p] = 0

\* C7: for every credential and every condition of the nonce table and of
\* the identity provider, validate_token ends with a principal or with a
\* rejection mapped to HTTP 401; no other exception leaves it.
C7_NoUnhandledFault ==
    \A p \in Procs : Done(p) => result[p].kind \in {"Admin", "Federated", "Rejected"}

\* C8: validate_egi_token returns a principal only when the signing key was
\* resolved, the signature verified, iss matches, exp has not passed and the
\* user-info lookup succeeded; when any of these steps fails the call ends
\* in a rejection.
FedFailures == {"not_a_jwt", "jwks_fetch_failed", "jwks_no_key", "jwt_rejected",
                "userinfo_failed"}
C8_FederatedFailsClosed ==
    \A p \in Procs : (Done(p) /\ fedRuns[p] > 0) =>
        /\ result[p] = FederatedPrincipal =>
              /\ cred[p].enc = "jwt"
              /\ cred[p].kidKnown /\ cred[p].sigValid
              /\ cred[p].issMatches /\ cred[p].unexpired
              /\ {"jwks_key", "userinfo_ok"} \subseteq fedLog[p]
        /\ fedLog[p] \cap FedFailures # {} => result[p].kind = "Rejected"
C8_Witness ==
    \E p \in Procs :
        /\ Done(p)
        /\ "userinfo_failed" \in fedLog[p]
        /\ result[p].kind = "Rejected"

\* C9: for a present credential the admin validator runs first; on admin
\* success the result is the Admin principal of the payload's user and
\* neither the federated validator nor a network call is made; on each admin
\* failure (Malformed, InvalidSignature, Expired, Replayed) the federated
\* validator runs exactly once and its result is the final result.
AdminFailures == {"Malformed", "InvalidSignature", "Expired", "Replayed"}
C9_AdminThenFederated ==
    \A p \in Procs : (Done(p) /\ cred[p] # NoCredential) =>
        /\ adminRes[p] = "ok" =>
              /\ result[p].kind = "Admin"
              /\ result[p].auth = PayloadOf(p).user
              /\ fedRuns[p] = 0 /\ fedLog[p] = {}
        /\ adminRes[p] \in AdminFailures =>
              /\ fedRuns[p] = 1
              /\ result[p].kind \in {"Federated", "Rejected"}
        /\ fedRuns[p] > 0 => adminRes[p] \in AdminFailures

\* C10: when the JWT passes signature, issuer and expiry verification but the
\* user-info lookup fails, the rejection that leaves validate_egi_token
\* carries the user-info failure as its reason, not the reason of an invalid
\* or expired token.
C10_UserInfoFailureReason ==
    \A p \in Procs : (Done(p) /\ "userinfo_failed" \in fedLog[p]) =>
        result[p] = Unauthorized("Failed to fetch user info")

\* C11: every network call of the authentication carries a bounded timeout,
\* so every validate_token invocation eventually terminates, with a result,
\* even when the identity provider accepts the connection and never responds.
C11_ValidateTokenTerminates == \A p \in Procs : InFlight(p) ~> Done(p)

\* C13: the pruning inside validate_admin_token deletes only rows whose
\* expires_at is strictly less than now, and never a row that is still
\* eligible for matching: a row whose nonce belongs to a token that still
\* passes the freshness check at the time of pruning.
Prunes(p) == pc[p] = "delete" /\ pc'[p] = "select"
Pruned(p) == nonces \ view'[p]
StillEligible(r, p) == r.nonce = NonceOf(p) /\ Fresh(nowL[p], SignedTsTable[cred[p]])
C13_PruneOnlyIneligibleRows ==
    [][\A p \in Procs : Prunes(p) =>
          \A r \in Pruned(p) : r.expires_at < nowL[p] /\ ~StillEligible(r, p)]_vars

\* C14: two concurrent validate_admin_token calls that carry different
\* nonces never block one another: the store access of one call never has
\* to wait for, nor fails because of, the store access in progress of a call
\* for a different nonce.
WaitsFor(p, q) ==
    /\ pc[p] = "delete"
    /\ waitFrom[p] # 0
    /\ writer = q
LockedOut(p) == Done(p) /\ result[p] = Uncaught("OperationalError: database is locked")
C14_DifferentNoncesDoNotBlock ==
    /\ \A p, q \in Procs :
          (p # q /\ WaitsFor(p, q)) => TokenNonce[cred[p]] = TokenNonce[cred[q]]
    /\ \A p \in Procs :
          LockedOut(p) => \A q \in Procs \ {p} :
              (writer = q) => TokenNonce[cred[p]] = TokenNonce[cred[q]]

\* C15: the wire format of the admin token is binary safe: whatever the
\* payload bytes and the signature bytes, also a signature that contains the
\* separator byte '.', the split in validate_admin_token recovers exactly
\* the payload bytes and the signature bytes that generate_admin_token joined.
JoinedParts(token) ==
    LET f == IssuedFields(token)
        payload_bytes == json_dumps(Payload(f[1], f[2], f[3]))
    IN  [out |-> "decoded",
         payload_bytes |-> payload_bytes,
         signature |-> hmac_digest(AdminKey, payload_bytes)]
SplitInvertsJoin(token) == AdminDecode(token) = JoinedParts(token)
SplitTable == [c \in IssuedTokens |-> SplitInvertsJoin(c)]
C15_WireFormatBinarySafe ==
    \A p \in Procs : (Checked(p) /\ IsIssued(cred[p])) => SplitTable[cred[p]]

\* C16: the nonce store changes only through a successful validation:
\* generate_admin_token never touches it; a validate_admin_token call that
\* is rejected (Malformed, InvalidSignature, Expired, Replayed) leaves the
\* committed rows as they were, the prune before a Replayed result included;
\* and a call returns the admin payload only with its nonce row, with
\* expires_at = now + ALLOWED_SKEW, committed.
Rejections == {"Malformed", "InvalidSignature", "Expired", "Replayed"}
Succeeds(p) == adminRes[p] # "ok" /\ adminRes'[p] = "ok"
GetsRejected(p) == adminRes[p] \notin Rejections /\ adminRes'[p] \in Rejections
OwnRow(p) == Row(NonceOf(p), nowL[p] + ALLOWED_SKEW)
C16_StoreChangesOnlyOnSuccess ==
    [][/\ nonces' # nonces => \E p \in Procs : Succeeds(p)
       /\ \A p \in Procs : GetsRejected(p) => nonces' = nonces
       /\ \A p \in Procs : Succeeds(p) => OwnRow(p) \in nonces'
       /\ \A p \in Procs : (result'[p].kind = "Admin" /\ result[p].kind # "Admin")
                               => (Succeeds(p) /\ OwnRow(p) \in nonces')]_vars
C16_Witness ==
    \E p \in Procs :
        /\ pc[p] = "fed_key"
        /\ adminRes[p] = "Replayed"
        /\ \E r \in nonces : r.expires_at < nowL[p]

====
